---- MODULE Spec2Model ----
(***************************************************************************)
(* Model of internal/lobby.go: the Lobby (session coordinator) of the      *)
(* octopod challenge server.  The registry of octapods, the handshake of   *)
(* HandleJoin / getAuthenticationMessage / identifyOctapod, the scheduler  *)
(* loop of StartTimer and its two phases Update and TimeoutUpdate.         *)
(*                                                                         *)
(* Granularity: one action per critical section (from Lock() to the        *)
(* matching Unlock()) and one action per blocking operation (a channel     *)
(* send, a timer wait).  A lock that the code holds across a blocking      *)
(* operation would show as held in Mutex / octMutex.                       *)
(*                                                                         *)
(* Octapod (NewOctapod, VerifyPassword, Run, Disconnect), Maze and         *)
(* DiscordBot are defined in other files of the repository; what the       *)
(* lobby needs of them is modelled from the specification.                 *)
(***************************************************************************)
EXTENDS Integers, Sequences, FiniteSets, TLC

\* ---------------------------------------------------------------- bounds
NumHandshakes == 2      \* inbound connections (HandleJoin invocations)
NumStarters == 2        \* StartTimer invocations

\* ------------------------------------------------------------- constants
MaxInactive == 2        \* var MaxInactive = 2
SensorCap == 1          \* capacity of an octapod's Sensor channel
Nil == 0                \* Go's nil for *websocket.Conn

Handshakes == 1..NumHandshakes
Starters == 1..NumStarters
RawIds == {"a", "A", "b"}       \* auth.ID as a peer can send it
OnePeer == {"a", "A"}           \* the spellings of one octapod's id
EmptyPeer == {"", "a"}          \* an empty or missing id, and one octapod besides
Passwords == {"x", "y"}         \* auth.Password
NoId == "-"                     \* id of a handshake that has none (yet)
NoPassword == "-"               \* password of a handshake that holds none

\* strings.ToLower on the ids above
ToLower(s) == CASE s = "A" -> "a" [] s = "B" -> "b" [] OTHER -> s

Ids == {ToLower(r) : r \in RawIds \cup EmptyPeer}

VARIABLES
    peerIds,        \* environment: the ids the connecting peers present
    timerRunning,   \* Lobby.timerRunning
    loops,          \* number of scheduler goroutines started by StartTimer
    starterPc,      \* position of each StartTimer invocation
    Mutex,          \* Lobby.Mutex: "free" or the holder
    Octapods,       \* Lobby.Octapods: the set of registered ids (map keys)
    secret,         \* Octapod password fixed by NewOctapod
    Conn,           \* Octapod.Conn: Nil or the handshake whose stream is attached
    InactiveCount,  \* Octapod.InactiveCount
    Sensor,         \* Octapod.Sensor: the channel's buffer
    octMutex,       \* Octapod.Mutex: "free" or the holder
    schedPc,        \* position of the scheduler goroutine
    isTimeout,      \* isTimeout of the scheduler loop
    pods,           \* snapshot still to be iterated; Head(pods) is o
    hpc,            \* position of each HandleJoin invocation
    hid,            \* lowercased id of the handshake
    hpw,            \* password of the handshake
    connState,      \* the handshake's websocket: "none", "open", "closed"
    outcome,        \* how the handshake ended
    runStarts,      \* number of times Run was started by the handshake
    lastDelivered,  \* history: kind of the last delivery on the Sensor channel
    repeated,       \* history: the last delivery had the kind of the one before it:
                    \*   "no", "afterSkip" (a phase skipped the octapod in between)
                    \*   or "noSkip"
    gap,            \* history: a phase skipped the octapod since its last delivery
    due,            \* history: InactiveCount reached MaxInactive in Update, not reset since
    evicted,        \* history: disconnected by TimeoutUpdate, no handshake attached since
    crashed,        \* the process ended with a panic
    sent,           \* DiscordBot: the boards sent since the last Update began
    shown,          \* the last text DisplayMaze returned to an outside caller
    unguarded,      \* history: octapods whose fields were accessed without o.Mutex
                    \*   since the last Update began
    lastPhase,      \* history: the phase the scheduler loop began last
    checkedConn,    \* history: Conn of the octapod TimeoutUpdate is at, as its
                    \*   first critical section found it
    overtaken       \* history: what a handshake did while the scheduler was blocked
                    \*   in its current send: "none", "new" (registered an
                    \*   octapod) or "known" (identified a registered one)

lobbyVars == <<timerRunning, loops, starterPc, Mutex>>
octVars == <<Octapods, secret, Conn, InactiveCount, Sensor, octMutex>>
schedVars == <<schedPc, isTimeout, pods>>
hsVars == <<hpc, hid, hpw, connState, outcome, runStarts>>
deliveryVars == <<lastDelivered, repeated, gap>>
histVars == <<deliveryVars, due, evicted>>
obsVars == <<crashed, sent, shown, unguarded, lastPhase, overtaken, checkedConn>>
vars == <<peerIds, lobbyVars, octVars, schedVars, hsVars, histVars, obsVars>>

\* the value of a string variable that was never assigned
NoText == [grid |-> FALSE, text |-> <<>>, marks |-> {}]

\* a panic ends the process: no goroutine takes a step after it
Alive == ~crashed

\* the scheduler goroutine is blocked in o.Sensor <- v: the channel of the
\* octapod it is at is full
Blocked ==
    /\ schedPc \in {"U_send", "T_send"}
    /\ Len(Sensor[Head(pods)]) = SensorCap

\* All orders in which a range over the map Octapods can visit the keys of S
Orders(S) ==
    {q \in [1..Cardinality(S) -> S] : \A i, j \in 1..Cardinality(S) : i # j => q[i] # q[j]}

\* ------------------------------------------------------------------ Init
\* NewLobby, after the Lobby literal is built and before it calls StartTimer
InitLobby ==
    /\ timerRunning = FALSE
    /\ loops = 0
    /\ starterPc = [c \in Starters |-> "idle"]
    /\ Mutex = "free"
    /\ Octapods = {}
    /\ secret = [p \in Ids |-> "x"]
    /\ Conn = [p \in Ids |-> Nil]
    /\ InactiveCount = [p \in Ids |-> 0]
    /\ Sensor = [p \in Ids |-> <<>>]
    /\ octMutex = [p \in Ids |-> "free"]
    /\ schedPc = "off"
    /\ isTimeout = FALSE
    /\ pods = <<>>
    /\ hpc = [h \in Handshakes |-> "new"]
    /\ hid = [h \in Handshakes |-> NoId]
    /\ hpw = [h \in Handshakes |-> NoPassword]
    /\ connState = [h \in Handshakes |-> "none"]
    /\ outcome = [h \in Handshakes |-> "none"]
    /\ runStarts = [h \in Handshakes |-> 0]
    /\ lastDelivered = [p \in Ids |-> "none"]
    /\ repeated = [p \in Ids |-> "no"]
    /\ gap = [p \in Ids |-> FALSE]
    /\ due = [p \in Ids |-> FALSE]
    /\ evicted = [p \in Ids |-> FALSE]
    /\ crashed = FALSE
    /\ sent = <<>>
    /\ shown = NoText
    /\ unguarded = {}
    /\ lastPhase = "none"
    /\ overtaken = "none"
    /\ checkedConn = Nil

\* every peer presents the same octapod id, in either spelling
Init ==
    /\ peerIds = OnePeer
    /\ InitLobby

\* a peer can send an authentication request with an empty or missing id
InitEmpty ==
    /\ peerIds = EmptyPeer
    /\ InitLobby

\* the peers present the ids of two octapods
InitTwo ==
    /\ peerIds = RawIds
    /\ InitLobby

\* ------------------------------------------------------------ StartTimer
\* Mutant: StartTimer does not test timerRunning
alreadyRunningNotTested == FALSE

\* StartTimer: if l.timerRunning
alreadyRunning == timerRunning

\* StartTimer, the critical section on l.Mutex: test and set timerRunning
StartTimer(c) ==
    /\ Alive
    /\ starterPc[c] = "idle"
    /\ \A d \in Starters : d < c => starterPc[d] # "idle"
    /\ Mutex = "free"
    /\ IF alreadyRunning
         THEN /\ starterPc' = [starterPc EXCEPT ![c] = "returned"]
              /\ UNCHANGED timerRunning
         ELSE /\ timerRunning' = TRUE
              /\ starterPc' = [starterPc EXCEPT ![c] = "spawn"]
    /\ UNCHANGED <<peerIds, obsVars, loops, Mutex, octVars, schedVars, hsVars, histVars>>

\* StartTimer, the go statement: the scheduler goroutine starts with
\* isTimeout = false and waits for its first timer
StartTimerSpawn(c) ==
    /\ Alive
    /\ starterPc[c] = "spawn"
    /\ starterPc' = [starterPc EXCEPT ![c] = "returned"]
    /\ loops' = loops + 1
    /\ IF schedPc = "off"
         THEN /\ schedPc' = "wait"
              /\ isTimeout' = FALSE
         ELSE UNCHANGED <<schedPc, isTimeout>>
    /\ UNCHANGED <<peerIds, obsVars, timerRunning, Mutex, octVars, pods, hsVars, histVars>>

\* ------------------------------------------------------------- handshake
\* What the peer's first message can be for conn.ReadMessage
Messages == {"readError", "binary", "badJson", "auth"}

\* getAuthenticationMessage: TRUE iff it returns a nil error
getAuthenticationMessage(msg) ==
    IF msg = "readError" THEN FALSE         \* err != nil
    ELSE IF msg = "binary" THEN FALSE       \* msgType != websocket.TextMessage
    ELSE IF msg = "badJson" THEN FALSE      \* json.Unmarshal fails
    ELSE TRUE

\* sendErrorAndClose: the state of the connection after it, given whether
\* conn.WriteMessage succeeded; a failed write returns before conn.Close()
sendErrorAndClose(state, writeOk) ==
    IF ~writeOk THEN state ELSE "closed"

\* conn.Close()
ConnClose(state) == "closed"

\* NewOctapod(id, password, conn, maze)
NewOctapod(p, pw, h) ==
    /\ secret' = [secret EXCEPT ![p] = pw]
    /\ Conn' = [Conn EXCEPT ![p] = h]
    /\ InactiveCount' = [InactiveCount EXCEPT ![p] = 0]
    /\ Sensor' = [Sensor EXCEPT ![p] = <<>>]

\* Octapod.VerifyPassword
VerifyPassword(p, pw) == secret[p] = pw

\* HandleJoin up to the first critical section of identifyOctapod:
\* Upgrade, getAuthenticationMessage on the new connection, then under
\* l.Mutex the lookup of the lowercased id and, when it is not registered,
\* NewOctapod, the insertion and oct.Run()
HandleJoin(h) ==
    /\ Alive
    /\ hpc[h] = "new"
    /\ \A g \in Handshakes : g < h => hpc[g] # "new"
    /\ \/ \* upgrader.Upgrade fails
          /\ hpc' = [hpc EXCEPT ![h] = "done"]
          /\ outcome' = [outcome EXCEPT ![h] = "upgradeFailed"]
          /\ UNCHANGED <<hid, hpw, connState, runStarts, Octapods, secret, Conn,
                         InactiveCount, Sensor, overtaken>>
       \/ \* the first message is no authentication request
          \E msg \in Messages, writeOk \in BOOLEAN :
            /\ ~getAuthenticationMessage(msg)
            /\ connState' = [connState EXCEPT ![h] = sendErrorAndClose("open", writeOk)]
            /\ hpc' = [hpc EXCEPT ![h] = "done"]
            /\ outcome' = [outcome EXCEPT ![h] = "authError"]
            /\ UNCHANGED <<hid, hpw, runStarts, Octapods, secret, Conn,
                           InactiveCount, Sensor, overtaken>>
       \/ \* an authentication request {id, password}
          \E msg \in Messages, raw \in peerIds, pw \in Passwords :
            LET id == ToLower(raw) IN
            /\ getAuthenticationMessage(msg)
            /\ Mutex = "free"
            /\ connState' = [connState EXCEPT ![h] = "open"]
            /\ hid' = [hid EXCEPT ![h] = id]
            /\ hpw' = [hpw EXCEPT ![h] = pw]
            /\ IF id \notin Octapods
                 THEN /\ NewOctapod(id, pw, h)
                      /\ Octapods' = Octapods \cup {id}
                      /\ outcome' = [outcome EXCEPT ![h] = "registered"]
                      /\ hpc' = [hpc EXCEPT ![h] = "run1"]        \* oct.Run()
                      /\ runStarts' = [runStarts EXCEPT ![h] = @ + 1]
                      /\ overtaken' = IF Blocked THEN "new" ELSE overtaken
                 ELSE /\ hpc' = [hpc EXCEPT ![h] = "existing"]
                      /\ UNCHANGED <<Octapods, secret, Conn, InactiveCount, Sensor,
                                     outcome, runStarts, overtaken>>
    /\ UNCHANGED <<peerIds, crashed, sent, shown, unguarded, lastPhase, checkedConn, lobbyVars, octMutex,
                   schedVars, histVars>>

\* Mutant: the test oct.Conn != nil is missing
identifyWithoutConnTest(p, pw) ==
    IF ~VerifyPassword(p, pw) THEN "badPassword" ELSE "reconnected"

\* Mutant: the password is not verified
identifyWithoutPasswordTest(p, pw) ==
    IF Conn[p] # Nil THEN "alreadyConnected" ELSE "reconnected"

\* Mutant: the result of VerifyPassword is inverted
identifyWithInvertedPasswordTest(p, pw) ==
    IF VerifyPassword(p, pw) THEN "badPassword"
    ELSE IF Conn[p] # Nil THEN "alreadyConnected"
    ELSE "reconnected"

\* Mutant: the test of oct.Conn is inverted (== nil for != nil)
identifyWithInvertedConnTest(p, pw) ==
    IF ~VerifyPassword(p, pw) THEN "badPassword"
    ELSE IF Conn[p] = Nil THEN "alreadyConnected"
    ELSE "reconnected"

\* identifyOctapod, the decision for an id that is registered
identifyExisting(p, pw) ==
    IF ~VerifyPassword(p, pw) THEN "badPassword"
    ELSE IF Conn[p] # Nil THEN "alreadyConnected"
    ELSE "reconnected"

\* Mutant: the rejection closes the stream the octapod already holds
closesAttachedConn(h, p) == IF Conn[p] # Nil THEN Conn[p] ELSE h

\* identifyOctapod, the connection a rejection writes the error to and
\* closes: the parameter conn, the stream of the handshake itself
rejectedConn(h, p) == h

\* identifyOctapod, the critical section on oct.Mutex: verify the password,
\* refuse a second connection, else attach; HandleJoin then calls o.Run()
\* on the octapod that identifyOctapod returned
IdentifyExisting(h) ==
    LET p == hid[h]
        result == identifyExisting(p, hpw[h])
    IN
    /\ Alive
    /\ hpc[h] = "existing"
    /\ octMutex[p] = "free"
    /\ outcome' = [outcome EXCEPT ![h] = result]
    /\ IF result = "reconnected"
         THEN /\ Conn' = [Conn EXCEPT ![p] = h]
              /\ evicted' = [evicted EXCEPT ![p] = FALSE]
              /\ UNCHANGED connState
         ELSE /\ \E writeOk \in BOOLEAN : connState' =
                    [connState EXCEPT ![rejectedConn(h, p)] =
                        ConnClose(sendErrorAndClose("open", writeOk))]
              /\ UNCHANGED <<Conn, evicted>>
    /\ hpc' = [hpc EXCEPT ![h] = "run2"]                      \* o.Run()
    /\ runStarts' = [runStarts EXCEPT ![h] = @ + 1]
    /\ overtaken' = IF Blocked THEN "known" ELSE overtaken
    /\ UNCHANGED <<peerIds, crashed, sent, shown, unguarded, lastPhase, checkedConn, lobbyVars, Octapods,
                   secret, InactiveCount, Sensor, octMutex,
                   schedVars, hid, hpw, deliveryVars, due>>

\* --------------------------------------------------- the octapod's own loop
\* Octapod.Run takes a delivery from the Sensor channel
RunReceive(h) ==
    /\ Alive
    /\ hpc[h] \in {"run1", "run2"}
    /\ Sensor[hid[h]] # <<>>
    /\ Sensor' = [Sensor EXCEPT ![hid[h]] = Tail(@)]
    /\ UNCHANGED <<peerIds, obsVars, lobbyVars, Octapods, secret, Conn, InactiveCount, octMutex,
                   schedVars, hsVars, histVars>>

\* Octapod.Run handles a command of the peer: liveness is reset
RunCommand(h) ==
    /\ Alive
    /\ hpc[h] \in {"run1", "run2"}
    /\ octMutex[hid[h]] = "free"
    /\ InactiveCount[hid[h]] > 0
    /\ InactiveCount' = [InactiveCount EXCEPT ![hid[h]] = 0]
    /\ due' = [due EXCEPT ![hid[h]] = FALSE]
    /\ UNCHANGED <<peerIds, obsVars, lobbyVars, Octapods, secret, Conn, Sensor, octMutex,
                   schedVars, hsVars,
                   deliveryVars, evicted>>

\* Octapod.Run finds the transport of the octapod broken (the peer is gone)
\* and gives the connection up: under the octapod's lock the transport is
\* closed and Conn cleared
RunDisconnect(h) ==
    LET p == hid[h] IN
    /\ Alive
    /\ hpc[h] \in {"run1", "run2"}
    /\ octMutex[p] = "free"
    /\ Conn[p] # Nil
    /\ connState' = [connState EXCEPT ![Conn[p]] = ConnClose(@)]
    /\ Conn' = [Conn EXCEPT ![p] = Nil]
    /\ UNCHANGED <<peerIds, obsVars, lobbyVars, Octapods, secret, InactiveCount, Sensor,
                   octMutex, schedVars, hpc, hid, hpw, outcome, runStarts, histVars>>

\* Octapod.Run returns; after the Run of identifyOctapod, HandleJoin calls
\* o.Run() once more
RunReturn(h) ==
    /\ Alive
    /\ hpc[h] \in {"run1", "run2"}
    /\ IF hpc[h] = "run1"
         THEN /\ hpc' = [hpc EXCEPT ![h] = "run2"]
              /\ runStarts' = [runStarts EXCEPT ![h] = @ + 1]
         ELSE /\ hpc' = [hpc EXCEPT ![h] = "done"]       \* HandleJoin returns
              /\ UNCHANGED runStarts
    /\ UNCHANGED <<peerIds, obsVars, lobbyVars, octVars, schedVars, hid, hpw, connState, outcome,
                   histVars>>

\* ------------------------------------------------------------- scheduler
\* o.Sensor <- v: the send on the octapod's channel, with the history of
\* what was delivered
Deliver(p, kind) ==
    /\ Len(Sensor[p]) < SensorCap
    /\ Sensor' = [Sensor EXCEPT ![p] = Append(@, kind)]
    /\ lastDelivered' = [lastDelivered EXCEPT ![p] = kind]
    /\ repeated' = [repeated EXCEPT ![p] =
            IF kind # lastDelivered[p] THEN "no"
            ELSE IF gap[p] THEN "afterSkip" ELSE "noSkip"]
    /\ gap' = [gap EXCEPT ![p] = FALSE]

\* Octapod.Disconnect: under the octapod's lock, close the transport and
\* clear Conn
Disconnect(p) ==
    /\ octMutex[p] = "free"
    /\ IF Conn[p] # Nil
         THEN /\ connState' = [connState EXCEPT ![Conn[p]] = ConnClose(@)]
              /\ Conn' = [Conn EXCEPT ![p] = Nil]
              /\ evicted' = [evicted EXCEPT ![p] = TRUE]
         ELSE UNCHANGED <<connState, Conn, evicted>>
    /\ due' = [due EXCEPT ![p] = FALSE]

\* Mutant: the loop does not flip isTimeout
flagNotFlipped(t) == t

\* the scheduler loop: isTimeout = !isTimeout
nextIsTimeout(t) == ~t

\* Mutant: TimeoutUpdate compares with > for >=
inactiveAbove(o) == InactiveCount[o] > MaxInactive

\* Mutant: TimeoutUpdate tests InactiveCount < MaxInactive
inactiveBelow(o) == InactiveCount[o] < MaxInactive

\* TimeoutUpdate: o.InactiveCount >= MaxInactive
inactive(o) == InactiveCount[o] >= MaxInactive

\* Mutant: the octapod's lock is released only after the send
sendUnderLock(m, o) == [m EXCEPT ![o] = "sched"]

\* Update and TimeoutUpdate: o.Mutex.Unlock() before o.Sensor <- v
unlockBeforeSend(m, o) == [m EXCEPT ![o] = "free"]

\* Update, the critical section on l.Mutex (read lock) after the timer of
\* the loop fired with isTimeout false: copy the registry's values
UpdateSnapshot ==
    /\ Alive
    /\ schedPc = "wait"
    /\ ~isTimeout
    /\ Mutex = "free"
    /\ \E q \in Orders(Octapods) : pods' = q
    /\ schedPc' = "U_iter"
    /\ lastPhase' = "Update"
    /\ sent' = <<>>
    /\ unguarded' = {}
    /\ UNCHANGED <<peerIds, crashed, shown, overtaken, checkedConn, lobbyVars, octVars, isTimeout, hsVars, histVars>>

\* Mutant: Update does not count the cycle
cycleNotCounted(n) == n

\* Update: o.InactiveCount++
countCycle(n) == n + 1

\* Update, the critical section on o.Mutex: skip an octapod without
\* connection, else count the cycle and read the sensor
UpdateExamine ==
    /\ Alive
    /\ schedPc = "U_iter"
    /\ pods # <<>>
    /\ LET o == Head(pods) IN
       /\ octMutex[o] = "free"
       /\ IF Conn[o] = Nil
            THEN /\ pods' = Tail(pods)
                 /\ gap' = [gap EXCEPT ![o] = TRUE]
                 /\ UNCHANGED <<schedPc, InactiveCount, due, octMutex>>
            ELSE /\ InactiveCount' = [InactiveCount EXCEPT ![o] = countCycle(@)]
                 /\ due' = [due EXCEPT ![o] = @ \/ InactiveCount[o] + 1 >= MaxInactive]
                 /\ octMutex' = unlockBeforeSend(octMutex, o)
                 /\ schedPc' = "U_send"
                 /\ UNCHANGED <<pods, gap>>
    /\ UNCHANGED <<peerIds, obsVars, lobbyVars, Octapods, secret, Conn, Sensor, isTimeout,
                   hsVars,  lastDelivered, repeated, evicted>>

\* Update: o.Sensor <- s
UpdateSend ==
    /\ Alive
    /\ schedPc = "U_send"
    /\ Deliver(Head(pods), "reading")
    /\ pods' = Tail(pods)
    /\ schedPc' = "U_iter"
    /\ overtaken' = "none"
    /\ UNCHANGED <<peerIds, crashed, sent, shown, unguarded, lastPhase, checkedConn, lobbyVars, Octapods,
                   secret, Conn, InactiveCount, octMutex,
                   isTimeout, hsVars,  due, evicted>>

\* the scheduler loop after l.Update() returned: t = timeout,
\* isTimeout = !isTimeout, wait for the next timer
LoopAfterUpdate ==
    /\ Alive
    /\ schedPc = "U_iter"
    /\ pods = <<>>
    /\ isTimeout' = nextIsTimeout(isTimeout)
    /\ schedPc' = "wait"
    /\ UNCHANGED <<peerIds, obsVars, lobbyVars, octVars, pods, hsVars, histVars>>

\* TimeoutUpdate, the critical section on l.Mutex (read lock) after the
\* timer of the loop fired with isTimeout true
TimeoutSnapshot ==
    /\ Alive
    /\ schedPc = "wait"
    /\ isTimeout
    /\ Mutex = "free"
    /\ \E q \in Orders(Octapods) : pods' = q
    /\ schedPc' = "T_iter"
    /\ lastPhase' = "Timeout"
    /\ UNCHANGED <<peerIds, crashed, sent, shown, unguarded, overtaken, checkedConn, lobbyVars, octVars, isTimeout,
                   hsVars, histVars>>

\* TimeoutUpdate, the first critical section on o.Mutex: skip an octapod
\* without connection
TimeoutExamine ==
    /\ Alive
    /\ schedPc = "T_iter"
    /\ pods # <<>>
    /\ LET o == Head(pods) IN
       /\ octMutex[o] = "free"
       /\ IF Conn[o] = Nil
            THEN /\ pods' = Tail(pods)
                 /\ gap' = [gap EXCEPT ![o] = TRUE]
                 /\ UNCHANGED <<schedPc, octMutex, checkedConn>>
            ELSE /\ octMutex' = unlockBeforeSend(octMutex, o)
                 /\ checkedConn' = Conn[o]
                 /\ schedPc' = "T_send"
                 /\ UNCHANGED <<pods, gap>>
    /\ UNCHANGED <<peerIds, crashed, sent, shown, unguarded, lastPhase, overtaken, lobbyVars, Octapods, secret, Conn, InactiveCount, Sensor,
                   isTimeout, hsVars,
                   lastDelivered, repeated, due, evicted>>

\* TimeoutUpdate: o.Sensor <- nil
TimeoutSend ==
    /\ Alive
    /\ schedPc = "T_send"
    /\ Deliver(Head(pods), "null")
    /\ schedPc' = "T_recheck"
    /\ overtaken' = "none"
    /\ UNCHANGED <<peerIds, crashed, sent, shown, unguarded, lastPhase, checkedConn, lobbyVars, Octapods,
                   secret, Conn, InactiveCount, octMutex,
                   isTimeout, pods, hsVars,  due, evicted>>

\* TimeoutUpdate, the second critical section on o.Mutex: compare
\* InactiveCount with MaxInactive
TimeoutRecheck ==
    /\ Alive
    /\ schedPc = "T_recheck"
    /\ LET o == Head(pods) IN
       /\ octMutex[o] = "free"
       /\ IF inactive(o)
            THEN /\ schedPc' = "T_disconnect"
                 /\ UNCHANGED <<pods, checkedConn>>
            ELSE /\ schedPc' = "T_iter"
                 /\ pods' = Tail(pods)
                 /\ checkedConn' = Nil
    /\ UNCHANGED <<peerIds, crashed, sent, shown, unguarded, lastPhase, overtaken, lobbyVars, octVars, isTimeout, hsVars, histVars>>

\* TimeoutUpdate: o.Disconnect()
TimeoutDisconnect ==
    /\ Alive
    /\ schedPc = "T_disconnect"
    /\ Disconnect(Head(pods))
    /\ pods' = Tail(pods)
    /\ schedPc' = "T_iter"
    /\ checkedConn' = Nil
    /\ UNCHANGED <<peerIds, crashed, sent, shown, unguarded, lastPhase, overtaken, lobbyVars, Octapods, secret, InactiveCount, Sensor, octMutex,
                   isTimeout, hpc, hid, hpw, outcome, runStarts,
                   deliveryVars>>

\* ----------------------------------------------------------- DisplayMaze
\* the id argument of a display request
Filters == {"", "A", "b", "B"}

\* DisplayMaze, the range over l.Octapods: the octapods whose Position is
\* read and entered in octapodPositions
Matched(id) == {o \in Octapods : id = "" \/ o = ToLower(id)}

\* DisplayMaze: octapodPositions holds one octapod for each Point, so of the
\* octapods on one cell the grid shows one; the positions are not modelled,
\* any non-empty subset of the matched octapods can be the ones shown
Visible(id) == IF Matched(id) = {} THEN {{}} ELSE SUBSET Matched(id) \ {{}}

\* DisplayMaze: octapod.Id[0:1] of an empty Id is out of range
Panics(visible) == "" \in visible

\* Mutant: the message names the lowercased id
displayLowercasedId(id, visible) ==
    IF Matched(id) = {}
      THEN [grid |-> FALSE, text |-> <<"No octapods [", ToLower(id), "] in the lobby.">>,
            marks |-> {}]
      ELSE [grid |-> TRUE, text |-> <<"rows of the maze">>, marks |-> visible]

\* DisplayMaze, the text returned: a string is the sequence of the pieces
\* it is concatenated from; marks are the Id[0:1] written into the grid
DisplayMaze(id, visible) ==
    IF Matched(id) = {}
      THEN IF id = ""
             THEN [grid |-> FALSE, text |-> <<"No octapods in the lobby.">>, marks |-> {}]
             ELSE [grid |-> FALSE, text |-> <<"No octapods [", id, "] in the lobby.">>,
                   marks |-> {}]
      ELSE [grid |-> TRUE, text |-> <<"rows of the maze">>, marks |-> visible]

\* the scheduler loop after l.TimeoutUpdate() returned: DisplayMaze("")
\* under l.Mutex, SendMessage of the board, t = duration,
\* isTimeout = !isTimeout, wait for the next timer
LoopAfterTimeout ==
    /\ Alive
    /\ schedPc = "T_iter"
    /\ pods = <<>>
    /\ Mutex = "free"
    /\ \E visible \in Visible("") :
         /\ unguarded' = unguarded \cup Matched("")
         /\ IF Panics(visible)
              THEN /\ crashed' = TRUE
                   /\ UNCHANGED <<sent, isTimeout, schedPc>>
              ELSE /\ sent' = Append(sent, DisplayMaze("", visible))
                   /\ isTimeout' = nextIsTimeout(isTimeout)
                   /\ schedPc' = "wait"
                   /\ UNCHANGED crashed
    /\ UNCHANGED <<peerIds, shown, lastPhase, overtaken, checkedConn, lobbyVars, octVars, pods, hsVars, histVars>>

\* DisplayMaze(id) called from outside the lobby (a display request)
DisplayRequest(id) ==
    /\ Alive
    /\ Mutex = "free"
    /\ \E visible \in Visible(id) :
         /\ unguarded' = unguarded \cup Matched(id)
         /\ IF Panics(visible)
              THEN /\ crashed' = TRUE
                   /\ UNCHANGED shown
              ELSE /\ shown' = DisplayMaze(id, visible)
                   /\ UNCHANGED crashed
    /\ UNCHANGED <<peerIds, sent, lastPhase, overtaken, checkedConn, lobbyVars, octVars, schedVars, hsVars, histVars>>

\* ------------------------------------------------------------------ Next
Next ==
    \/ \E c \in Starters : StartTimer(c)
    \/ \E c \in Starters : StartTimerSpawn(c)
    \/ \E h \in Handshakes : HandleJoin(h)
    \/ \E h \in Handshakes : IdentifyExisting(h)
    \/ \E h \in Handshakes : RunReceive(h)
    \/ \E h \in Handshakes : RunCommand(h)
    \/ \E h \in Handshakes : RunReturn(h)
    \/ UpdateSnapshot
    \/ UpdateExamine
    \/ UpdateSend
    \/ LoopAfterUpdate
    \/ TimeoutSnapshot
    \/ TimeoutExamine
    \/ TimeoutSend
    \/ TimeoutRecheck
    \/ TimeoutDisconnect
    \/ LoopAfterTimeout

Spec == Init /\ [][Next]_vars

\* the lobby with display requests from outside, while the timer of the
\* scheduler loop has not fired: DisplayMaze reads nothing but the
\* registry, which only handshakes change
NextDisplay ==
    \/ \E h \in Handshakes : HandleJoin(h)
    \/ \E h \in Handshakes : IdentifyExisting(h)
    \/ \E h \in Handshakes : RunReturn(h)
    \/ \E id \in Filters : DisplayRequest(id)

SpecDisplay == InitTwo /\ [][NextDisplay]_vars

\* the lobby when the loop of an octapod can give its connection up
NextDrop ==
    \/ Next
    \/ \E h \in Handshakes : RunDisconnect(h)

SpecDrop == Init /\ [][NextDrop]_vars

\* the lobby when a peer can present an empty id
SpecEmpty == InitEmpty /\ [][Next]_vars

SpecTwo == InitTwo /\ [][Next]_vars

\* the octapod whose own loop may stop taking from its channel
StalledId == "a"

\* the scheduler goroutine is never starved: a fired timer, a free lock or
\* a channel with room lets it take its next step
SchedulerFairness ==
    /\ WF_vars(UpdateSnapshot) /\ WF_vars(UpdateExamine) /\ WF_vars(UpdateSend)
    /\ WF_vars(LoopAfterUpdate)
    /\ WF_vars(TimeoutSnapshot) /\ WF_vars(TimeoutExamine) /\ WF_vars(TimeoutSend)
    /\ WF_vars(TimeoutRecheck) /\ WF_vars(TimeoutDisconnect)
    /\ WF_vars(LoopAfterTimeout)

\* the running loop of every octapod but StalledId keeps taking
ConsumerFairness ==
    WF_vars(\E h \in Handshakes : hid[h] # StalledId /\ RunReceive(h))

FairSpecTwo == SpecTwo /\ SchedulerFairness /\ ConsumerFairness

TypeOK ==
    /\ peerIds \subseteq RawIds \cup EmptyPeer
    /\ timerRunning \in BOOLEAN
    /\ loops \in 0..NumStarters
    /\ starterPc \in [Starters -> {"idle", "spawn", "returned"}]
    /\ Mutex \in {"free", "sched", "handshake"}
    /\ Octapods \subseteq Ids
    /\ secret \in [Ids -> Passwords]
    /\ Conn \in [Ids -> Handshakes \cup {Nil}]
    /\ InactiveCount \in [Ids -> Nat]
    /\ \A p \in Ids : Len(Sensor[p]) <= SensorCap
    /\ octMutex \in [Ids -> {"free", "sched", "handshake"}]
    /\ schedPc \in {"off", "wait", "U_iter", "U_send", "T_iter", "T_send",
                    "T_recheck", "T_disconnect"}
    /\ isTimeout \in BOOLEAN
    /\ hpc \in [Handshakes -> {"new", "existing", "run1", "run2", "done"}]
    /\ hid \in [Handshakes -> Ids \cup {NoId}]
    /\ hpw \in [Handshakes -> Passwords \cup {NoPassword}]
    /\ connState \in [Handshakes -> {"none", "open", "closed"}]
    /\ runStarts \in [Handshakes -> 0..2]
    /\ crashed \in BOOLEAN
    /\ Len(sent) <= 1
    /\ shown.grid \in BOOLEAN
    /\ unguarded \subseteq Octapods
    /\ lastPhase \in {"none", "Update", "Timeout"}
    /\ overtaken \in {"none", "new", "known"}
    /\ checkedConn \in Handshakes \cup {Nil}

\* ---------------------------------------------------------------- claims
\* the handshake h completes the second critical section of identifyOctapod
\* in this step
Identifies(h) == hpc[h] = "existing" /\ hpc'[h] # "existing"

\* the stream of handshake h was attached to an octapod and is still open
Attached(h) == outcome[h] \in {"registered", "reconnected"} /\ connState[h] = "open"

C2_CredentialFixed ==
    [][ /\ \A p \in Octapods : secret'[p] = secret[p]
        /\ \A h \in Handshakes :
              /\ (outcome[h] = "none" /\ outcome'[h] = "registered") =>
                    secret'[hid'[h]] = hpw'[h]
              /\ (Identifies(h) /\ hpw[h] # secret[hid[h]]) =>
                    /\ outcome'[h] = "badPassword"
                    /\ Conn' = Conn
                    /\ connState'[h] = "closed" ]_vars

\* a handshake was refused for its password, the credential being the one
\* of the registration
C2_Witness ==
    \E h, g \in Handshakes :
        /\ outcome[h] = "registered" /\ outcome[g] = "badPassword"
        /\ hid[h] = hid[g]
        /\ secret[hid[h]] = hpw[h] /\ hpw[g] # hpw[h]

\* C3: whenever a handshake attaches its stream to an octapod (NewOctapod
\* or the reconnection of identifyOctapod), InactiveCount of the octapod is
\* 0 right after the step.
C3_AttachResetsInactiveCount ==
    [][ \A p \in Ids, h \in Handshakes :
            (Conn[p] # h /\ Conn'[p] = h) => InactiveCount'[p] = 0 ]_vars

\* TimeoutUpdate has finished with octapod p: the phase is over, or p is no
\* longer among the octapods it still has to visit
TimeoutDoneWith(p) ==
    \/ schedPc = "wait" /\ ~isTimeout
    \/ /\ schedPc \in {"T_iter", "T_send", "T_recheck", "T_disconnect"}
       /\ \A i \in 1..Len(pods) : pods[i] # p

\* C4: an octapod whose InactiveCount reached MaxInactive in an update
\* phase, with no reset and no disconnection since (due), is disconnected
\* when the next timeout phase has finished with it.
C4_EvictedByNextTimeout ==
    \A p \in Ids : TimeoutDoneWith(p) => ~due[p]

\* a timeout phase finished with an octapod whose count had reached
\* MaxInactive: it disconnected it, and the count is as Update left it
C4_Witness ==
    \E p \in Ids :
        /\ TimeoutDoneWith(p) /\ schedPc = "T_iter"
        /\ evicted[p] /\ Conn[p] = Nil
        /\ InactiveCount[p] = MaxInactive

\* C5: whatever the StartTimer invocations, at most one scheduler loop was
\* started.
C5_OneSchedulerLoop == loops <= 1

\* every StartTimer invocation returned, one of them started the loop
C5_Witness ==
    /\ \A c \in Starters : starterPc[c] = "returned"
    /\ loops = 1 /\ timerRunning

\* C6: the deliveries on an octapod's channel strictly alternate between a
\* reading and a null marker.
C6_StrictAlternation ==
    \A p \in Ids : repeated[p] = "no"

\* C6 as amended: two deliveries of one kind follow each other only when a
\* phase in between found the octapod without connection and skipped it.
C6_AlternationUnlessSkipped ==
    \A p \in Ids : repeated[p] # "noSkip"

\* a reading, a null marker and the next reading were delivered to an
\* octapod that stayed connected
C6_Witness ==
    \E p \in Ids :
        /\ lastDelivered[p] = "reading" /\ repeated[p] = "no"
        /\ InactiveCount[p] = 2 /\ ~gap[p] /\ ~evicted[p]

\* the scheduler is blocked in o.Sensor <- v for octapod p
BlockedOn(p) == schedPc \in {"U_send", "T_send"} /\ Head(pods) = p

\* octapod q is in the snapshot of the running phase, behind the octapod
\* the scheduler is at
StillToVisit(q) == \E i \in 2..Len(pods) : pods[i] = q

\* C7: an octapod that does not take from its channel delays only its own
\* deliveries: while the scheduler is blocked on it, every other connected
\* octapod of the snapshot is still visited in this phase, and the
\* scheduler gets past the stalled octapod.
C7_StalledDelaysOnlyItself ==
    /\ \A q \in Ids \ {StalledId} :
          (BlockedOn(StalledId) /\ StillToVisit(q) /\ Conn[q] # Nil) ~> ~StillToVisit(q)
    /\ BlockedOn(StalledId) ~> ~BlockedOn(StalledId)

\* C8: an octapod evicted by a timeout phase has no connection until a
\* handshake attaches one, and a handshake for its id with the stored
\* password that finds it so is accepted: its stream is attached and open.
C8_ReconnectAfterEviction ==
    [][ /\ \A p \in Ids : evicted[p] => Conn[p] = Nil /\ p \in Octapods
        /\ \A h \in Handshakes :
              (Identifies(h) /\ evicted[hid[h]] /\ hpw[h] = secret[hid[h]]) =>
                    /\ outcome'[h] = "reconnected"
                    /\ Conn'[hid[h]] = h
                    /\ connState'[h] = "open" ]_vars

\* a handshake with the stored password reconnected an octapod that a
\* timeout phase had evicted
C8_Witness ==
    \E h \in Handshakes :
        /\ outcome[h] = "reconnected" /\ Conn[hid[h]] = h /\ connState[h] = "open"
        /\ \E g \in Handshakes : outcome[g] = "registered" /\ connState[g] = "closed"

\* C9: the handshake that follows an eviction is a fresh registration: it is
\* accepted with any password, which becomes the credential, and
\* InactiveCount starts at 0.
C9_FreshRegistrationAfterEviction ==
    [][ \A h \in Handshakes :
            (Identifies(h) /\ evicted[hid[h]]) =>
                /\ Conn'[hid[h]] = h
                /\ secret'[hid[h]] = hpw[h]
                /\ InactiveCount'[hid[h]] = 0 ]_vars

\* C9 as amended: the evicted octapod stays registered with its credential;
\* the handshake that follows is accepted exactly when its password is the
\* stored one, and it changes neither the credential nor InactiveCount.
C9_ReconnectionKeepsCredential ==
    [][ \A h \in Handshakes :
            (Identifies(h) /\ evicted[hid[h]]) =>
                /\ hid[h] \in Octapods
                /\ (Conn'[hid[h]] = h) <=> (hpw[h] = secret[hid[h]])
                /\ secret' = secret
                /\ InactiveCount' = InactiveCount ]_vars

\* after an eviction one handshake was refused for its password, the
\* octapod keeping credential and count, and is still without connection
C9_Witness ==
    \E h \in Handshakes :
        /\ outcome[h] = "badPassword"
        /\ evicted[hid[h]] /\ Conn[hid[h]] = Nil
        /\ secret[hid[h]] # hpw[h]
        /\ InactiveCount[hid[h]] >= MaxInactive

\* C10: a handshake whose first message is no authentication request ends
\* with its connection closed, the registry and the octapods untouched and
\* no Run started.
C10_AuthErrorClosesConnection ==
    \A h \in Handshakes :
        outcome[h] = "authError" =>
            /\ connState[h] = "closed"
            /\ runStarts[h] = 0
            /\ \A p \in Ids : Conn[p] # h

\* C11: a handshake for a registered id that is rejected, for a password
\* that does not match or for an octapod that is already connected, closes
\* the connection of that handshake and no other, and leaves the octapod's
\* connection, password and InactiveCount as they were.
Rejects(h) ==
    /\ Identifies(h)
    /\ ~VerifyPassword(hid[h], hpw[h]) \/ Conn[hid[h]] # Nil

C11_RejectionLeavesOctapodUntouched ==
    [][\A h \in Handshakes : Rejects(h) =>
          /\ outcome'[h] \in {"badPassword", "alreadyConnected"}
          /\ connState'[h] = "closed"
          /\ \A g \in Handshakes \ {h} : connState'[g] = connState[g]
          /\ Conn' = Conn
          /\ secret' = secret
          /\ InactiveCount' = InactiveCount]_vars

C11_Witness ==
    \E h \in Handshakes :
        /\ outcome[h] \in {"badPassword", "alreadyConnected"}
        /\ connState[h] = "closed"
        /\ Conn[hid[h]] \in Handshakes \ {h}
        /\ connState[Conn[hid[h]]] = "open"

\* C12: no handshake, whatever its authentication message (an empty or
\* missing id or password included), aborts the scheduler loop or changes
\* the state of an octapod with another id: the process never ends in a
\* panic, and a step of a handshake leaves every octapod with another id
\* as it was.
HandshakeStep(h) == hpc[h] \in {"new", "existing"} /\ hpc'[h] # hpc[h]

C12_HandshakesNeverAbortScheduler ==
    /\ [](~crashed)
    /\ [][\A h \in Handshakes : HandshakeStep(h) =>
            \A p \in Ids \ {hid'[h]} :
                /\ (p \in Octapods') = (p \in Octapods)
                /\ secret'[p] = secret[p]
                /\ Conn'[p] = Conn[p]
                /\ InactiveCount'[p] = InactiveCount[p]
                /\ Sensor'[p] = Sensor[p]]_vars

\* C13: whenever the scheduler is blocked in a delivery, of Update or of
\* TimeoutUpdate, it holds neither the registry lock nor the lock of any
\* octapod, so a handshake can take both and complete while the scheduler
\* waits for an octapod that does not take from its channel.
C13_BlockedHoldsNoLock ==
    schedPc \in {"U_send", "T_send"} =>
        /\ Mutex = "free"
        /\ \A p \in Ids : octMutex[p] = "free"

C13_Witness == Blocked /\ overtaken # "none"

C13_WitnessNewId == Blocked /\ overtaken = "new"

\* C14: every read or write of a registered octapod's Conn, Position or
\* InactiveCount by the scheduler, the handshake path or DisplayMaze is made
\* while the accessing goroutine holds the octapod's own lock: no octapod
\* has a field accessed without o.Mutex.
C14_FieldsAccessedUnderOwnLock == unguarded = {}

\* C15: DisplayMaze with an empty filter over an empty registry returns
\* exactly "No octapods in the lobby."; with a non-empty filter that equals
\* no registered id, compared without regard to case, it returns a message
\* that contains the filter as it was given, and no grid.
Contains(text, piece) == \E i \in 1..Len(text) : text[i] = piece

EqualsNoId(id) == \A o \in Octapods : ToLower(o) # ToLower(id)

C15_NoOctapodsMessage ==
    [][\A id \in Filters : DisplayRequest(id) =>
          /\ (id = "" /\ Octapods = {}) =>
                shown' = [grid |-> FALSE, text |-> <<"No octapods in the lobby.">>,
                          marks |-> {}]
          /\ (id # "" /\ EqualsNoId(id)) =>
                /\ ~shown'.grid
                /\ shown'.marks = {}
                /\ Contains(shown'.text, id)]_vars

C15_Witness ==
    /\ Octapods # {}
    /\ \E id \in Filters \ {""} :
          /\ EqualsNoId(id)
          /\ shown = [grid |-> FALSE, text |-> <<"No octapods [", id, "] in the lobby.">>,
                      marks |-> {}]

C15_WitnessEmpty ==
    shown = [grid |-> FALSE, text |-> <<"No octapods in the lobby.">>, marks |-> {}]

\* C16: one Update increases InactiveCount by exactly 1 and delivers exactly
\* one reading for every octapod that has a connection when the phase
\* examines it, and leaves the count of an octapod without connection as it
\* was and delivers nothing to it; the phase examines no octapod twice.
SchedulerStepAt(pc) == schedPc = pc /\ (schedPc' # schedPc \/ pods' # pods)

NoDuplicates(q) == \A i, j \in 1..Len(q) : i # j => q[i] # q[j]

OthersKeep(f, o) == \A p \in Ids \ {o} : f'[p] = f[p]

C16_UpdateCountsAndDeliversOnce ==
    /\ [](schedPc \in {"U_iter", "U_send"} => NoDuplicates(pods))
    /\ [][(SchedulerStepAt("U_iter") /\ pods # <<>>) =>
            LET o == Head(pods) IN
            /\ OthersKeep(InactiveCount, o)
            /\ Sensor' = Sensor
            /\ IF Conn[o] # Nil
                 THEN /\ InactiveCount'[o] = InactiveCount[o] + 1
                      /\ schedPc' = "U_send"
                      /\ pods' = pods
                 ELSE /\ InactiveCount'[o] = InactiveCount[o]
                      /\ schedPc' = "U_iter"
                      /\ pods' = Tail(pods)]_vars
    /\ [][SchedulerStepAt("U_send") =>
            LET o == Head(pods) IN
            /\ InactiveCount' = InactiveCount
            /\ OthersKeep(Sensor, o)
            /\ Sensor'[o] = Append(Sensor[o], "reading")
            /\ schedPc' = "U_iter"
            /\ pods' = Tail(pods)]_vars

C16_Witness ==
    /\ schedPc = "U_iter"
    /\ \E p \in Octapods :
          /\ lastDelivered[p] = "reading"
          /\ Conn[p] # Nil
          /\ InactiveCount[p] = 1
          /\ Sensor[p] = <<"reading">>
          /\ pods = <<>>

\* C17: in TimeoutUpdate every octapod with a connection is sent a nil
\* marker whatever its InactiveCount, and is then disconnected if and only
\* if its InactiveCount at the re-check is at least MaxInactive: the
\* scheduler disconnects an octapod in no other step, and never one whose
\* count the re-check found below MaxInactive.
C17_TimeoutMarksThenEvicts ==
    /\ [][(SchedulerStepAt("T_iter") /\ pods # <<>>) =>
            LET o == Head(pods) IN
            /\ Conn' = Conn /\ connState' = connState /\ Sensor' = Sensor
            /\ IF Conn[o] # Nil
                 THEN schedPc' = "T_send" /\ pods' = pods
                 ELSE schedPc' = "T_iter" /\ pods' = Tail(pods)]_vars
    /\ [][SchedulerStepAt("T_send") =>
            LET o == Head(pods) IN
            /\ Conn' = Conn /\ connState' = connState
            /\ OthersKeep(Sensor, o)
            /\ Sensor'[o] = Append(Sensor[o], "null")
            /\ schedPc' = "T_recheck" /\ pods' = pods]_vars
    /\ [][SchedulerStepAt("T_recheck") =>
            LET o == Head(pods) IN
            /\ Conn' = Conn /\ connState' = connState
            /\ IF InactiveCount[o] >= MaxInactive
                 THEN schedPc' = "T_disconnect" /\ pods' = pods
                 ELSE schedPc' = "T_iter" /\ pods' = Tail(pods)]_vars
    /\ [][SchedulerStepAt("T_disconnect") =>
            LET o == Head(pods) IN
            /\ Conn'[o] = Nil
            /\ OthersKeep(Conn, o)
            /\ \A h \in Handshakes :
                 connState'[h] = IF h = Conn[o] THEN "closed" ELSE connState[h]
            /\ schedPc' = "T_iter" /\ pods' = Tail(pods)]_vars
    /\ [][(schedPc # "T_disconnect" /\ (schedPc' # schedPc \/ pods' # pods)) =>
            Conn' = Conn /\ connState' = connState]_vars

C17_Witness ==
    \E p \in Octapods :
        /\ evicted[p]
        /\ Conn[p] = Nil
        /\ lastDelivered[p] = "null"
        /\ \E h \in Handshakes : hid[h] = p /\ connState[h] = "closed"

C17_WitnessKept ==
    /\ schedPc = "T_iter"
    /\ pods = <<>>
    /\ \E p \in Octapods :
          /\ Sensor[p] = <<"null">>
          /\ Conn[p] # Nil
          /\ InactiveCount[p] < MaxInactive

\* C18: the phases of the scheduler loop occur in the order Update,
\* TimeoutUpdate, Update, ... beginning with an Update; no phase begins
\* before the one before it has finished; and exactly one board is sent to
\* the DiscordBot after each TimeoutUpdate, before the next Update.
PhaseBegins == schedPc = "wait" /\ schedPc' # "wait"

InUpdate(pc) == pc \in {"U_iter", "U_send"}

InTimeout(pc) == pc \in {"T_iter", "T_send", "T_recheck", "T_disconnect"}

C18_PhasesAlternateWithOneBoard ==
    /\ [][PhaseBegins =>
            \/ InUpdate(schedPc') /\ lastPhase \in {"none", "Timeout"}
            \/ InTimeout(schedPc') /\ lastPhase = "Update"]_vars
    /\ [][/\ (InUpdate(schedPc') /\ ~InUpdate(schedPc)) => schedPc = "wait"
          /\ (InTimeout(schedPc') /\ ~InTimeout(schedPc)) => schedPc = "wait"
          /\ (schedPc' = "wait" /\ schedPc \notin {"wait", "off"}) =>
                schedPc \in {"U_iter", "T_iter"} /\ pods = <<>>]_vars
    /\ [][(PhaseBegins /\ InUpdate(schedPc') /\ lastPhase = "Timeout") =>
            Len(sent) = 1]_vars
    /\ []((lastPhase = "Timeout" /\ (schedPc = "wait" \/ crashed)) => Len(sent) = 1)
    /\ []((lastPhase # "Timeout" \/ InTimeout(schedPc)) => crashed \/ Len(sent) = 0)

C20_RunOncePerAttachedHandshake ==
    \A h \in Handshakes :
        IF outcome[h] \in {"registered", "reconnected"}
          THEN runStarts[h] = 1
          ELSE runStarts[h] = 0

====
